---- MODULE Spec2Model ----
(***************************************************************************)
(* The fasmg symbol index (src/src/symbols.ts, src/src/goto.ts) and the    *)
(* extension glue that drives it (src/unnamed/part_000), as a state        *)
(* machine.  Text is a sequence of one-character strings, a document's     *)
(* text a sequence of such lines; a JS Map is a function whose domain is   *)
(* the key set, except `documents`, whose insertion order is observable    *)
(* (saveToCache iterates it) and which is therefore a sequence of          *)
(* key/table pairs.                                                        *)
(***************************************************************************)
EXTENDS Integers, Sequences, FiniteSets, TLC

(***************************************************************************)
(* Characters and strings                                                  *)
(***************************************************************************)
UpperChars == <<"A","B","C","D","E","F","G","H","I","J","K","L","M",
                "N","O","P","Q","R","S","T","U","V","W","X","Y","Z">>

LowerChars == <<"a","b","c","d","e","f","g","h","i","j","k","l","m",
                "n","o","p","q","r","s","t","u","v","w","x","y","z">>

DigitChars == {"0","1","2","3","4","5","6","7","8","9"}

Range1(s) == {s[i] : i \in 1..Len(s)}

Letters == Range1(UpperChars) \cup Range1(LowerChars)

IsLetter(c) == c \in Letters

\* the lower-case form of each upper-case letter
LowerOf ==
    [c \in Range1(UpperChars) |->
        LowerChars[CHOOSE i \in 1..Len(UpperChars) : UpperChars[i] = c]]

\* String.prototype.toLowerCase, one character
ToLowerChar(c) == IF c \in DOMAIN LowerOf THEN LowerOf[c] ELSE c

toLowerCase(s) == [i \in 1..Len(s) |-> ToLowerChar(s[i])]

\* \s of the regexes
IsSpace(c) == c \in {" ", "\t"}

\* \w, the class \b is defined by
IsWordChar(c) == IsLetter(c) \/ c \in DigitChars \/ c = "_"

\* [.?A-Za-z_$]
IsIdentStart(c) == IsLetter(c) \/ c \in {".", "?", "_", "$"}

\* [A-Za-z0-9_.#$?]
IsIdentChar(c) == IsLetter(c) \/ c \in DigitChars \/ c \in {"_", ".", "#", "$", "?"}

\* String.prototype.trim is empty
IsBlank(s) == \A i \in 1..Len(s) : IsSpace(s[i])

\* String.prototype.trim
trim(s) ==
    IF IsBlank(s) THEN <<>>
    ELSE LET a == CHOOSE i \in 1..Len(s) :
                     ~IsSpace(s[i]) /\ \A j \in 1..(i-1) : IsSpace(s[j])
             b == CHOOSE i \in 1..Len(s) :
                     ~IsSpace(s[i]) /\ \A j \in (i+1)..Len(s) : IsSpace(s[j])
         IN  SubSeq(s, a, b)

\* s.endsWith(t)
endsWith(s, t) ==
    Len(s) >= Len(t) /\ SubSeq(s, Len(s) - Len(t) + 1, Len(s)) = t

\* whether t stands in s at 1-based position p
StandsAt(s, p, t) ==
    p >= 1 /\ p + Len(t) - 1 <= Len(s) /\ SubSeq(s, p, p + Len(t) - 1) = t

\* text.indexOf(name), 0-based; -1 when name does not occur
indexOf(s, t) ==
    IF \E p \in 1..(Len(s) + 1) : StandsAt(s, p, t)
    THEN (CHOOSE p \in 1..(Len(s) + 1) :
              StandsAt(s, p, t) /\ \A q \in 1..(p-1) : ~StandsAt(s, q, t)) - 1
    ELSE -1

\* fullText.split(';', 1)[0]: the text before the first semicolon
stripComment(s) ==
    IF \E i \in 1..Len(s) : s[i] = ";"
    THEN SubSeq(s, 1, (CHOOSE i \in 1..Len(s) :
                          s[i] = ";" /\ \A j \in 1..(i-1) : s[j] # ";") - 1)
    ELSE s

(***************************************************************************)
(* The definition regexes of symbols.ts.  A match is the captured name, or *)
(* NoMatch.  Every regex is anchored at the line start, so its leading     *)
(* whitespace and its greedy identifier are forced; the only backtracking  *)
(* that changes a capture is that of an identifier followed by \b.         *)
(***************************************************************************)
NoMatch == <<"<no match>">>

\* position of the first character at or after p that is not whitespace
SkipSpace(s, p) ==
    IF \E i \in p..Len(s) : ~IsSpace(s[i])
    THEN CHOOSE i \in p..Len(s) : ~IsSpace(s[i]) /\ \A j \in p..(i-1) : IsSpace(s[j])
    ELSE Len(s) + 1

\* whether an identifier can start at p
IdentAt(s, p) == p >= 1 /\ p <= Len(s) /\ IsIdentStart(s[p])

\* last position of the greedy identifier [.?A-Za-z_$][A-Za-z0-9_.#$?]* at p
IdentEnd(s, p) ==
    CHOOSE e \in p..Len(s) :
        /\ \A j \in (p+1)..e : IsIdentChar(s[j])
        /\ (e = Len(s) \/ ~IsIdentChar(s[e+1]))

\* \b between positions e and e+1 (e >= 1)
BoundaryAfter(s, e) ==
    IsWordChar(s[e]) # (e < Len(s) /\ IsWordChar(s[e+1]))

\* last position of the identifier at p as (IDENT)\b captures it: the longest
\* prefix of the greedy identifier that ends at a word boundary; 0 when none
IdentEndAtBoundary(s, p) ==
    LET e  == IdentEnd(s, p)
        ok == {k \in p..e : BoundaryAfter(s, k)}
    IN  IF ok = {} THEN 0 ELSE CHOOSE k \in ok : \A j \in ok : j <= k

\* a keyword of kws (lower case) standing at p, compared as the i flag does
KeywordAt(s, p, kws) ==
    {kw \in kws : /\ p + Len(kw) - 1 <= Len(s)
                  /\ toLowerCase(SubSeq(s, p, p + Len(kw) - 1)) = kw}

\* ^\s*(IDENT)\s+(kw1|kw2|...)\b  with the i flag
MatchIdentKeyword(s, kws) ==
    LET p == SkipSpace(s, 1) IN
    IF ~IdentAt(s, p) THEN NoMatch
    ELSE LET e == IdentEnd(s, p)
             q == SkipSpace(s, e + 1)
         IN  IF /\ q > e + 1
                /\ \E kw \in KeywordAt(s, q, kws) : BoundaryAfter(s, q + Len(kw) - 1)
             THEN SubSeq(s, p, e)
             ELSE NoMatch

\* ^\s*(kw1|kw2|...)\s+(IDENT)\b  with the i flag
MatchKeywordIdent(s, kws) ==
    LET p    == SkipSpace(s, 1)
        hits == {kw \in KeywordAt(s, p, kws) :
                    LET q == SkipSpace(s, p + Len(kw))
                    IN  /\ q > p + Len(kw)
                        /\ IdentAt(s, q)
                        /\ IdentEndAtBoundary(s, q) # 0}
    IN  IF hits = {} THEN NoMatch
        ELSE LET kw == CHOOSE k \in hits : TRUE
                 q  == SkipSpace(s, p + Len(kw))
             IN  SubSeq(s, q, IdentEndAtBoundary(s, q))

DataKeywords ==
    { <<"d","b">>, <<"d","w">>, <<"d","d">>, <<"d","q">>, <<"d","t">>, <<"d","p">>,
      <<"d","d","q">>, <<"d","q","q">>, <<"d","d","q","q">>,
      <<"r","b">>, <<"r","w">>, <<"r","d">>, <<"r","q">>, <<"r","t">>, <<"r","p">>,
      <<"r","d","q">>, <<"r","q","q">>, <<"r","d","q","q">>,
      <<"e","m","i","t">>, <<"f","i","l","e">> }

\* /^\s*([.?A-Za-z_$][A-Za-z0-9_.#$?]*)(?:::|:)/
labelDefRegex(s) ==
    LET p == SkipSpace(s, 1) IN
    IF ~IdentAt(s, p) THEN NoMatch
    ELSE LET e == IdentEnd(s, p)
         IN  IF e < Len(s) /\ s[e+1] = ":" THEN SubSeq(s, p, e) ELSE NoMatch

dataLabelRegex(s) == MatchIdentKeyword(s, DataKeywords)

labelKeywordRegex(s) == MatchKeywordIdent(s, { <<"l","a","b","e","l">> })

equRegex(s) == MatchIdentKeyword(s, { <<"e","q","u">>, <<"r","e","e","q","u">> })

defineRegex(s) ==
    MatchKeywordIdent(s, { <<"d","e","f","i","n","e">>,
                           <<"r","e","d","e","f","i","n","e">> })

\* /^\s*([.?A-Za-z_$][A-Za-z0-9_.#$?]*)\s*(?::=|=:|=)/
assignRegex(s) ==
    LET p == SkipSpace(s, 1) IN
    IF ~IdentAt(s, p) THEN NoMatch
    ELSE LET e == IdentEnd(s, p)
             q == SkipSpace(s, e + 1)
         IN  IF \/ StandsAt(s, q, <<":", "=">>)
                \/ StandsAt(s, q, <<"=", ":">>)
                \/ StandsAt(s, q, <<"=">>)
             THEN SubSeq(s, p, e)
             ELSE NoMatch

elementRegex(s) == MatchKeywordIdent(s, { <<"e","l","e","m","e","n","t">> })

loadRegex(s) == MatchKeywordIdent(s, { <<"l","o","a","d">> })

macroRegex(s) == MatchKeywordIdent(s, { <<"m","a","c","r","o">> })


(***************************************************************************)
(* Maps, ranges and the per-document symbol table                          *)
(***************************************************************************)
EmptyMap == [k \in {} |-> <<>>]

\* Map.prototype.set
mapSet(m, k, v) == [n \in DOMAIN m \cup {k} |-> IF n = k THEN v ELSE m[n]]

\* map.get(k) ?? []
mapGet(m, k) == IF k \in DOMAIN m THEN m[k] ELSE <<>>

Position(line, character) == [line |-> line, character |-> character]

\* new vscode.Range(sl, sc, el, ec): start and end are put in order
Range(sl, sc, el, ec) ==
    IF el < sl \/ (el = sl /\ ec < sc)
    THEN [start |-> Position(el, ec), end |-> Position(sl, sc)]
    ELSE [start |-> Position(sl, sc), end |-> Position(el, ec)]

EmptyTable ==
    [labelsSensitive |-> EmptyMap, labelsInsensitive |-> EmptyMap,
     valuesSensitive |-> EmptyMap, valuesInsensitive |-> EmptyMap]

Buckets == {"labelsSensitive", "labelsInsensitive", "valuesSensitive", "valuesInsensitive"}

NullName == [isNull |-> TRUE, baseName |-> <<>>, isCaseInsensitive |-> FALSE]

normalizeDefinitionName(raw) ==
    LET name == trim(raw) IN
    IF name = <<>> THEN NullName
    ELSE IF Len(name) > 1 /\ endsWith(name, <<"?">>)
         THEN [isNull |-> FALSE, baseName |-> SubSeq(name, 1, Len(name) - 1),
               isCaseInsensitive |-> TRUE]
         ELSE [isNull |-> FALSE, baseName |-> name, isCaseInsensitive |-> FALSE]

\* a normalizeUsageName that strips the `?` marker and forgets it
normalizeUsageUnmarked(raw) ==
    LET name == trim(raw) IN
    IF name = <<>> THEN [baseName |-> <<>>, isExplicitCaseInsensitive |-> FALSE]
    ELSE IF Len(name) > 1 /\ endsWith(name, <<"?">>)
         THEN [baseName |-> SubSeq(name, 1, Len(name) - 1),
               isExplicitCaseInsensitive |-> FALSE]
         ELSE [baseName |-> name, isExplicitCaseInsensitive |-> FALSE]

\* a normalizeUsageName that folds the case of every usage
normalizeUsageLowered(raw) ==
    LET name == trim(raw) IN
    IF name = <<>> THEN [baseName |-> <<>>, isExplicitCaseInsensitive |-> FALSE]
    ELSE IF Len(name) > 1 /\ endsWith(name, <<"?">>)
         THEN [baseName |-> toLowerCase(SubSeq(name, 1, Len(name) - 1)),
               isExplicitCaseInsensitive |-> TRUE]
         ELSE [baseName |-> toLowerCase(name), isExplicitCaseInsensitive |-> FALSE]

normalizeUsageName(raw) ==
    LET name == trim(raw) IN
    IF name = <<>> THEN [baseName |-> <<>>, isExplicitCaseInsensitive |-> FALSE]
    ELSE IF Len(name) > 1 /\ endsWith(name, <<"?">>)
         THEN [baseName |-> SubSeq(name, 1, Len(name) - 1),
               isExplicitCaseInsensitive |-> TRUE]
         ELSE [baseName |-> name, isExplicitCaseInsensitive |-> FALSE]

addRange(map, key, range) ==
    IF key \in DOMAIN map
    THEN mapSet(map, key, Append(map[key], range))
    ELSE mapSet(map, key, <<range>>)

addLabel(table, rawName, range) ==
    LET norm == normalizeDefinitionName(rawName) IN
    IF norm.isNull THEN table
    ELSE IF norm.isCaseInsensitive
         THEN [table EXCEPT
                  !.labelsInsensitive = addRange(@, toLowerCase(norm.baseName), range)]
         ELSE [table EXCEPT !.labelsSensitive = addRange(@, norm.baseName, range)]

addValue(table, rawName, range) ==
    LET norm == normalizeDefinitionName(rawName) IN
    IF norm.isNull THEN table
    ELSE IF norm.isCaseInsensitive
         THEN [table EXCEPT
                  !.valuesInsensitive = addRange(@, toLowerCase(norm.baseName), range)]
         ELSE [table EXCEPT !.valuesSensitive = addRange(@, norm.baseName, range)]

\* one `if ((m = re.exec(text))) { ... }` block of buildSymbolTable: name is the
\* capture (NoMatch when the regex fails), line is 0-based
defineFrom(table, kind, name, text, line) ==
    LET col == indexOf(text, name) IN
    IF name = NoMatch \/ col < 0 THEN table
    ELSE IF kind = "label"
         THEN addLabel(table, name, Range(line, col, line, col + Len(name)))
         ELSE addValue(table, name, Range(line, col, line, col + Len(name)))

\* the blocks that follow the label block, in the order of the source: the
\* kind each defines and what its regex captures
laterBlocks(text) ==
    << <<"label", dataLabelRegex(text)>>,
       <<"label", labelKeywordRegex(text)>>,
       <<"value", elementRegex(text)>>,
       <<"value", defineRegex(text)>>,
       <<"value", equRegex(text)>>,
       <<"value", macroRegex(text)>>,
       <<"value", assignRegex(text)>>,
       <<"value", loadRegex(text)>> >>

RECURSIVE defineEach(_, _, _, _)
\* the blocks run one after the other; none ends the iteration
defineEach(table, blocks, text, line) ==
    IF blocks = <<>> THEN table
    ELSE defineEach(defineFrom(table, Head(blocks)[1], Head(blocks)[2], text, line),
                    Tail(blocks), text, line)

\* the body of buildSymbolTable's loop from `if (!text.trim()) continue;` on;
\* the label block ends the iteration with `continue`
scanText(table, text, line) ==
    IF IsBlank(text) THEN table
    ELSE IF labelDefRegex(text) # NoMatch
         THEN defineFrom(table, "label", labelDefRegex(text), text, line)
         ELSE defineEach(table, laterBlocks(text), text, line)

\* the body of buildSymbolTable's loop for one line
scanLine(table, fullText, line) == scanText(table, stripComment(fullText), line)

RECURSIVE scanLines(_, _, _)
scanLines(table, lines, line) ==
    IF line >= Len(lines) THEN table
    ELSE scanLines(scanLine(table, lines[line + 1], line), lines, line + 1)


(***************************************************************************)
(* The workspace of the model                                              *)
(***************************************************************************)
\* the texts a document can hold
TextLines ==
    << << <<"f","o","o",":">>, <<"f","o","o","?"," ","e","q","u"," ","1">> >>,
       << <<"_","_","p","r","o","t","o","_","_",":">>, <<>>, <<"b","a","r"," ","d","b"," ","0">>, <<"F","O","O"," ","="," ","2">> >>,
       << <<" "," ","F","o","o","?",":"," ",";"," ","x",":">>, <<"f","o","o",":">>, <<"f","o","o"," ","="," ","1">> >> >>

TextIds == 1..Len(TextLines)

\* one-line texts, one for each definition construct: the name marked with `?`
\* in each construct, plain names, and the three assignment operators
ConstructTexts ==
    <<
       << <<"f","o","o","?",":">> >>,
       << <<"f","o","o","?"," ","d","b"," ","0">> >>,
       << <<"l","a","b","e","l"," ","f","o","o","?">> >>,
       << <<"e","l","e","m","e","n","t"," ","f","o","o","?">> >>,
       << <<"d","e","f","i","n","e"," ","f","o","o","?"," ","1">> >>,
       << <<"r","e","d","e","f","i","n","e"," ","f","o","o","?"," ","1">> >>,
       << <<"f","o","o","?"," ","e","q","u"," ","1">> >>,
       << <<"f","o","o","?"," ","r","e","e","q","u"," ","1">> >>,
       << <<"m","a","c","r","o"," ","f","o","o","?"," ","a">> >>,
       << <<"f","o","o","?"," ","="," ","1">> >>,
       << <<"l","o","a","d"," ","f","o","o","?"," ","f","r","o","m"," ","0">> >>,
       << <<"f","o","o",":">> >>,
       << <<"f","o","o"," ","="," ","1">> >>,
       << <<"l","a","b","e","l"," ","b","a","r">> >>,
       << <<"l","a","b","e","l"," ","e","l">> >>,
       << <<"x",":","=","1">> >>,
       << <<"x"," ",":","="," ","1">> >>,
       << <<"x","=",":","1">> >>,
       << <<"x"," ","="," ","1">> >> >>

\* every text of the model: the texts of the sessions, then the one-line texts
AllTexts == TextLines \o ConstructTexts

AllTextIds == 1..Len(AllTexts)

\* the loop of buildSymbolTable over each text of the model, computed once
SymbolTables == [lines \in Range1(AllTexts) |-> scanLines(EmptyTable, lines, 0)]

\* document: [uri, languageId, lines]
buildSymbolTable(document) == SymbolTables[document.lines]

(***************************************************************************)
(* Documents.  A uri is [scheme, fsPath]; its string form, the key of      *)
(* `documents`, is the scheme, a colon and the path.                       *)
(***************************************************************************)
Uri(fsPath) == [scheme |-> "file", fsPath |-> fsPath]

\* uri.toString()
uriToString(uri) == <<uri.scheme, ":">> \o uri.fsPath

\* vscode.Uri.parse
uriParse(str) == [scheme |-> str[1], fsPath |-> SubSeq(str, 3, Len(str))]

\* the documents of the model: A and B are workspace files, N is an open
\* plain-text document, G is a file that exists no longer (a cache written in
\* an earlier session may still name it)
DocUri(d) ==
    CASE d = "A" -> Uri(<<"a", ".", "a", "s", "m">>)
      [] d = "B" -> Uri(<<"b", ".", "i", "n", "c">>)
      [] d = "N" -> Uri(<<"n", ".", "t", "x", "t">>)
      [] d = "G" -> Uri(<<"g", ".", "a", "s", "m">>)

LanguageId(d) == IF d = "A" THEN "fasmg" ELSE "plaintext"

DocKey(d) == uriToString(DocUri(d))

isIndexableDocument(document) ==
    \/ document.languageId = "fasmg"
    \/ LET fsPath == toLowerCase(document.uri.fsPath)
       IN  \/ endsWith(fsPath, <<".", "a", "s", "m">>)
           \/ endsWith(fsPath, <<".", "i", "n", "c">>)

(***************************************************************************)
(* The index: `documents` and the four aggregated maps, as one record ix.  *)
(***************************************************************************)
EmptyIndex ==
    [documents |-> <<>>,
     labelsSensitive |-> EmptyMap, labelsInsensitive |-> EmptyMap,
     valuesSensitive |-> EmptyMap, valuesInsensitive |-> EmptyMap]

\* this.documents.delete(key)
documentsDelete(docs, key) == SelectSeq(docs, LAMBDA e : e.key # key)

\* this.documents.get(key) is defined
documentsHas(docs, key) == \E i \in 1..Len(docs) : docs[i].key = key

\* this.documents.set(key, table): a new key goes last, a present one keeps its place
documentsSet(docs, key, table) ==
    IF documentsHas(docs, key)
    THEN [i \in 1..Len(docs) |->
             IF docs[i].key = key THEN [key |-> key, table |-> table] ELSE docs[i]]
    ELSE Append(docs, [key |-> key, table |-> table])

\* this.documents.get(key), EmptyTable standing for undefined
documentsGet(docs, key) ==
    IF documentsHas(docs, key)
    THEN docs[CHOOSE i \in 1..Len(docs) : docs[i].key = key].table
    ELSE EmptyTable

\* a removeFromIndex that filters nothing out
keepAll(uri, index) == index

removeFromIndex(uri, index) ==
    LET uriStr == uriToString(uri)
        filtered(name) ==
            SelectSeq(index[name], LAMBDA loc : uriToString(loc.uri) # uriStr)
    IN  [name \in {n \in DOMAIN index : filtered(n) # <<>>} |-> filtered(name)]

\* the closure `add` of addTableToIndex
add(map, target, kind, isCaseInsensitive, uri) ==
    [name \in DOMAIN target \cup DOMAIN map |->
        IF name \in DOMAIN map
        THEN mapGet(target, name) \o
             [i \in 1..Len(map[name]) |->
                 [uri |-> uri, range |-> map[name][i], kind |-> kind,
                  isCaseInsensitive |-> isCaseInsensitive]]
        ELSE target[name]]

addTableToIndex(ix, uri, table) ==
    [ix EXCEPT
        !.labelsSensitive   = add(table.labelsSensitive, @, "label", FALSE, uri),
        !.labelsInsensitive = add(table.labelsInsensitive, @, "label", TRUE, uri),
        !.valuesSensitive   = add(table.valuesSensitive, @, "value", FALSE, uri),
        !.valuesInsensitive = add(table.valuesInsensitive, @, "value", TRUE, uri)]

\* a purge that forgets the aggregated maps
purgeDocumentsOnly(ix, uri) ==
    [ix EXCEPT !.documents = documentsDelete(@, uriToString(uri))]

\* the delete-and-purge that indexDocument and removeDocument share
purge(ix, uri) ==
    [documents         |-> documentsDelete(ix.documents, uriToString(uri)),
     labelsSensitive   |-> removeFromIndex(uri, ix.labelsSensitive),
     labelsInsensitive |-> removeFromIndex(uri, ix.labelsInsensitive),
     valuesSensitive   |-> removeFromIndex(uri, ix.valuesSensitive),
     valuesInsensitive |-> removeFromIndex(uri, ix.valuesInsensitive)]

\* an indexDocument that inserts without deleting first
indexWithoutPurge(ix, uri, table) ==
    addTableToIndex([ix EXCEPT !.documents = documentsSet(@, uriToString(uri), table)],
                    uri, table)

\* the rest of indexDocument once the table is built
indexTable(ix, uri, table) ==
    addTableToIndex(
        [purge(ix, uri) EXCEPT !.documents = documentsSet(@, uriToString(uri), table)],
        uri, table)

\* indexDocument without its scheduleSave, which the actions add
indexDocument(ix, document) ==
    IF ~isIndexableDocument(document) THEN ix
    ELSE indexTable(ix, document.uri, buildSymbolTable(document))

\* a removeDocument that returns at once
removeNothing(ix, uri) == ix

removeDocument(ix, uri) == purge(ix, uri)

\* map.get(k)?.length is truthy
hasEntries(map, k) == k \in DOMAIN map /\ Len(map[k]) > 0

\* a lookupSymbolKind that asks the Value bucket of a tier first
lookupValueFirst(ix, rawUsageName) ==
    IF normalizeUsageName(rawUsageName).baseName = <<>> THEN "null"
    ELSE IF /\ ~normalizeUsageName(rawUsageName).isExplicitCaseInsensitive
            /\ hasEntries(ix.valuesSensitive, normalizeUsageName(rawUsageName).baseName)
         THEN "value"
    ELSE IF /\ ~normalizeUsageName(rawUsageName).isExplicitCaseInsensitive
            /\ hasEntries(ix.labelsSensitive, normalizeUsageName(rawUsageName).baseName)
         THEN "label"
    ELSE IF hasEntries(ix.valuesInsensitive,
                       toLowerCase(normalizeUsageName(rawUsageName).baseName))
         THEN "value"
    ELSE IF hasEntries(ix.labelsInsensitive,
                       toLowerCase(normalizeUsageName(rawUsageName).baseName))
         THEN "label"
    ELSE "null"

\* a lookupSymbolKind that asks the insensitive tier before the sensitive one
lookupInsensitiveFirst(ix, rawUsageName) ==
    IF normalizeUsageName(rawUsageName).baseName = <<>> THEN "null"
    ELSE IF hasEntries(ix.labelsInsensitive,
                       toLowerCase(normalizeUsageName(rawUsageName).baseName))
         THEN "label"
    ELSE IF hasEntries(ix.valuesInsensitive,
                       toLowerCase(normalizeUsageName(rawUsageName).baseName))
         THEN "value"
    ELSE IF /\ ~normalizeUsageName(rawUsageName).isExplicitCaseInsensitive
            /\ hasEntries(ix.labelsSensitive, normalizeUsageName(rawUsageName).baseName)
         THEN "label"
    ELSE IF /\ ~normalizeUsageName(rawUsageName).isExplicitCaseInsensitive
            /\ hasEntries(ix.valuesSensitive, normalizeUsageName(rawUsageName).baseName)
         THEN "value"
    ELSE "null"

lookupSymbolKind(ix, rawUsageName) ==
    LET n     == normalizeUsageName(rawUsageName)
        lower == toLowerCase(n.baseName)
    IN  IF n.baseName = <<>> THEN "null"
        ELSE IF ~n.isExplicitCaseInsensitive /\ hasEntries(ix.labelsSensitive, n.baseName)
             THEN "label"
        ELSE IF ~n.isExplicitCaseInsensitive /\ hasEntries(ix.valuesSensitive, n.baseName)
             THEN "value"
        ELSE IF hasEntries(ix.labelsInsensitive, lower) THEN "label"
        ELSE IF hasEntries(ix.valuesInsensitive, lower) THEN "value"
        ELSE "null"

\* new vscode.Location(loc.uri, loc.range) for each loc
toLocations(locs) ==
    [i \in 1..Len(locs) |-> [uri |-> locs[i].uri, range |-> locs[i].range]]

\* a findDefinitions that does not return early on a sensitive match
findDefinitionsAllTiers(ix, rawUsageName) ==
    IF normalizeUsageName(rawUsageName).baseName = <<>> THEN <<>>
    ELSE (IF normalizeUsageName(rawUsageName).isExplicitCaseInsensitive THEN <<>>
          ELSE toLocations(
                   mapGet(ix.labelsSensitive, normalizeUsageName(rawUsageName).baseName) \o
                   mapGet(ix.valuesSensitive, normalizeUsageName(rawUsageName).baseName)))
         \o toLocations(
                mapGet(ix.labelsInsensitive,
                       toLowerCase(normalizeUsageName(rawUsageName).baseName)) \o
                mapGet(ix.valuesInsensitive,
                       toLowerCase(normalizeUsageName(rawUsageName).baseName)))

findDefinitions(ix, rawUsageName) ==
    LET n         == normalizeUsageName(rawUsageName)
        lower     == toLowerCase(n.baseName)
        sensitive == toLocations(mapGet(ix.labelsSensitive, n.baseName) \o
                                 mapGet(ix.valuesSensitive, n.baseName))
    IN  IF n.baseName = <<>> THEN <<>>
        ELSE IF ~n.isExplicitCaseInsensitive /\ sensitive # <<>> THEN sensitive
        ELSE toLocations(mapGet(ix.labelsInsensitive, lower) \o
                         mapGet(ix.valuesInsensitive, lower))

(***************************************************************************)
(* Persistence.  A file is absent, or holds bytes that are JSON text or    *)
(* not; JSON text is modelled by the value it denotes.                     *)
(***************************************************************************)
rangesToPersisted(ranges) ==
    [i \in 1..Len(ranges) |->
        [sl |-> ranges[i].start.line, sc |-> ranges[i].start.character,
         el |-> ranges[i].end.line,   ec |-> ranges[i].end.character]]

persistedToRanges(ranges) ==
    [i \in 1..Len(ranges) |->
        Range(ranges[i].sl, ranges[i].sc, ranges[i].el, ranges[i].ec)]

ProtoKey == <<"_", "_", "p", "r", "o", "t", "o", "_", "_">>

\* obj[k] = v on the plain object mapToRecord starts from: the key __proto__
\* reaches Object.prototype's setter, which makes v (an array) the prototype
\* of obj and creates no own property
mapToRecord(map) ==
    [k \in DOMAIN map \ {ProtoKey} |-> rangesToPersisted(map[k])]

\* Object.entries(rec) yields the own properties
recordToMap(rec) == [k \in DOMAIN rec |-> persistedToRanges(rec[k])]

\* the record saveToCache pushes for one entry of this.documents
persistTable(uriStr, table) ==
    [uri |-> uriStr,
     labelsSensitive   |-> mapToRecord(table.labelsSensitive),
     labelsInsensitive |-> mapToRecord(table.labelsInsensitive),
     valuesSensitive   |-> mapToRecord(table.valuesSensitive),
     valuesInsensitive |-> mapToRecord(table.valuesInsensitive)]

\* the payload saveToCache builds from this.documents
payloadOf(docs) ==
    [documents |-> [i \in 1..Len(docs) |-> persistTable(docs[i].key, docs[i].table)]]

FileAbsent == [kind |-> "absent"]

\* bytes that are not JSON text
FileGarbage == [kind |-> "bytes", isJson |-> FALSE]

\* Buffer.from(JSON.stringify(payload), 'utf8')
jsonStringify(value) == [kind |-> "bytes", isJson |-> TRUE, value |-> value]

\* JSON.parse does not throw on data
jsonParses(data) == data.isJson

\* JSON.parse(Buffer.from(data).toString('utf8'))
jsonParse(data) == data.value

\* the fields a cached record must have for loadFromCache's loop body not to throw
RecordFields == {"uri"} \cup Buckets

\* the loop of loadFromCache over parsed.documents from record i on; a record
\* without one of the bucket fields makes recordToMap throw (Object.entries of
\* undefined) before anything of that record is stored
RECURSIVE loadRecords(_, _, _)
loadRecords(ix, recs, i) ==
    IF i > Len(recs) THEN [index |-> ix, threw |-> FALSE]
    ELSE IF ~(RecordFields \subseteq DOMAIN recs[i]) THEN [index |-> ix, threw |-> TRUE]
    ELSE LET doc   == recs[i]
             uri   == uriParse(doc.uri)
             table == [labelsSensitive   |-> recordToMap(doc.labelsSensitive),
                       labelsInsensitive |-> recordToMap(doc.labelsInsensitive),
                       valuesSensitive   |-> recordToMap(doc.valuesSensitive),
                       valuesInsensitive |-> recordToMap(doc.valuesInsensitive)]
         IN  loadRecords(
                 addTableToIndex(
                     [ix EXCEPT !.documents = documentsSet(@, doc.uri, table)],
                     uri, table),
                 recs, i + 1)

\* a loadFromCache that clears the maps before it reads and parses
loadClearingFirst(ix, file) ==
    IF file.kind = "absent" THEN [index |-> EmptyIndex, threw |-> FALSE]
    ELSE IF ~jsonParses(file) THEN [index |-> EmptyIndex, threw |-> FALSE]
    ELSE IF "documents" \notin DOMAIN jsonParse(file)
         THEN [index |-> EmptyIndex, threw |-> TRUE]
         ELSE loadRecords(EmptyIndex, jsonParse(file).documents, 1)

\* loadFromCache from the point where readFile has settled with `file`:
\* the index it leaves and whether it threw
loadFromCache(ix, file) ==
    IF file.kind = "absent" THEN [index |-> ix, threw |-> FALSE]
    ELSE IF ~jsonParses(file) THEN [index |-> ix, threw |-> FALSE]
    ELSE LET parsed == jsonParse(file) IN
         IF "documents" \notin DOMAIN parsed
         THEN [index |-> EmptyIndex, threw |-> TRUE]
         ELSE loadRecords(EmptyIndex, parsed.documents, 1)

(***************************************************************************)
(* The workspace of the model, continued                                   *)
(***************************************************************************)
\* the names looked up
UsageNames ==
    { <<"f","o","o">>, <<"F","O","O">>, <<"F","o","o">>, <<"f","o","o","?">>, <<"b","a","r">>, <<"_","_","p","r","o","t","o","_","_">> }

\* the documents whose text changes: A in the editor, B on disk
TextDocs == {"A", "B"}

\* the documents that hold a text: those two and N, whose text nothing changes
HeldDocs == TextDocs \cup {"N"}

\* vscode.workspace.textDocuments: the documents open in the editor
textDocuments == <<"A", "N">>

\* the patterns of scanWorkspace and what findFiles finds for each
patterns == << <<"*", "*", "/", "*", ".", "a", "s", "m">>,
               <<"*", "*", "/", "*", ".", "i", "n", "c">> >>

WorkspaceRoot == "root"

\* the files of the workspace, in the order findFiles lists them
WorkspaceFiles == <<"A", "B">>

\* vscode.workspace.findFiles(pattern): the workspace files the glob **/*.ext matches
findFiles(folders, pattern) ==
    IF folders = <<>> THEN <<>>
    ELSE SelectSeq(WorkspaceFiles,
             LAMBDA d : endsWith(DocUri(d).fsPath, SubSeq(pattern, 5, Len(pattern))))

(***************************************************************************)
(* Bounds of the model                                                     *)
(***************************************************************************)
\* environment events (edits, open/save events, removeDocument calls) in a run
MaxEvents == 3

\* callers of ensureInitialized
MaxCallers == 2

\* saveToCache invocations in flight at once
MaxSaves == 1

\* indexDocument calls counted by the debounce specification
MaxCalls == 4

Callers == 1..MaxCallers

\* a caller that has made no provider request
NoRequest == [kind |-> "none", doc |-> "-", word |-> <<>>, pc |-> "idle",
              cancelled |-> FALSE, indexed |-> FALSE, lookups |-> 0,
              result |-> [kind |-> "none", items |-> <<>>]]

(***************************************************************************)
(* State                                                                   *)
(***************************************************************************)
VARIABLES
    text,               \* environment: the text id each document holds
    workspaceFolders,   \* environment: vscode.workspace.workspaceFolders
    cacheFile,          \* environment: .cache/fasmg-symbol-index.json
    documents,          \* FasmgSymbolIndex.documents, in insertion order
    labelsSensitive,    \* the four aggregated maps
    labelsInsensitive,
    valuesSensitive,
    valuesInsensitive,
    initialScan,        \* the memoized promise: "null", "pending", "fulfilled", "rejected"
    init,               \* the async function behind initialScan: where it stands, its locals
    saveTimeout,        \* the handle scheduleSave keeps; 0 is null
    timers,             \* the host's pending timers (handles)
    saves,              \* the saveToCache invocations in flight
    callers,            \* each caller of ensureInitialized: "idle", "waiting", "returned", "threw"
    requests,           \* each caller's provider request: its token, where it stands, what it did
    lastOp,             \* history: the last operation on the index
    removed,            \* history: documents removed and not indexed again since
    starts,             \* history: how often loadFromCache and scanWorkspace started
    burst,              \* history: scheduleSave calls, bursts and timer firings
    events              \* history: environment events so far

indexVars == <<documents, labelsSensitive, labelsInsensitive, valuesSensitive,
               valuesInsensitive>>

envVars == <<text, workspaceFolders>>

timerVars == <<saveTimeout, timers>>

vars == <<text, workspaceFolders, cacheFile, documents, labelsSensitive,
          labelsInsensitive, valuesSensitive, valuesInsensitive, initialScan, init,
          saveTimeout, timers, saves, callers, requests, lastOp, removed, starts,
          burst, events>>

\* the index as one record
Index ==
    [documents |-> documents,
     labelsSensitive |-> labelsSensitive, labelsInsensitive |-> labelsInsensitive,
     valuesSensitive |-> valuesSensitive, valuesInsensitive |-> valuesInsensitive]

IndexBecomes(ix) ==
    /\ documents' = ix.documents
    /\ labelsSensitive' = ix.labelsSensitive
    /\ labelsInsensitive' = ix.labelsInsensitive
    /\ valuesSensitive' = ix.valuesSensitive
    /\ valuesInsensitive' = ix.valuesInsensitive

\* the vscode.TextDocument of d holding text t
documentWith(d, t) ==
    [uri |-> DocUri(d), languageId |-> LanguageId(d), lines |-> AllTexts[t]]

\* the vscode.TextDocument of d as it is now
document(d) == documentWith(d, text[d])

(***************************************************************************)
(* The debounce timer                                                      *)
(***************************************************************************)
\* setTimeout's result: a handle no pending timer has
freshHandle(pending) == CHOOSE h \in 1..(Cardinality(pending) + 1) : h \notin pending

\* clearTimeout(handle)
clearTimeout(pending, handle) == pending \ {handle}

\* a scheduleSave that leaves the previous timer pending
scheduleWithoutClear(ts) ==
    [saveTimeout |-> freshHandle(ts.timers),
     timers |-> ts.timers \cup {freshHandle(ts.timers)}]

\* scheduleSave on the timer state ts = [saveTimeout, timers]
scheduleSave(ts) ==
    LET pending == IF ts.saveTimeout # 0 THEN clearTimeout(ts.timers, ts.saveTimeout)
                   ELSE ts.timers
        handle  == freshHandle(pending)
    IN  [saveTimeout |-> handle, timers |-> pending \cup {handle}]

RECURSIVE scheduleSaves(_, _)
scheduleSaves(ts, n) == IF n = 0 THEN ts ELSE scheduleSaves(scheduleSave(ts), n - 1)

Timer == [saveTimeout |-> saveTimeout, timers |-> timers]

TimerBecomes(ts) == saveTimeout' = ts.saveTimeout /\ timers' = ts.timers

(***************************************************************************)
(* History                                                                 *)
(***************************************************************************)
NoOp == [op |-> "none", doc |-> "-", again |-> FALSE, had |-> FALSE, dropped |-> {}]

\* lookupSymbolKindInTable of symbols.ts
lookupSymbolKindInTable(table, rawUsageName) ==
    LET n     == normalizeUsageName(rawUsageName)
        lower == toLowerCase(n.baseName)
    IN  IF n.baseName = <<>> THEN "null"
        ELSE IF ~n.isExplicitCaseInsensitive /\ hasEntries(table.labelsSensitive, n.baseName)
             THEN "label"
        ELSE IF ~n.isExplicitCaseInsensitive /\ hasEntries(table.valuesSensitive, n.baseName)
             THEN "value"
        ELSE IF hasEntries(table.labelsInsensitive, lower) THEN "label"
        ELSE IF hasEntries(table.valuesInsensitive, lower) THEN "value"
        ELSE "null"

\* whether a document with this table defines the usage name
tableDefines(table, rawUsageName) == lookupSymbolKindInTable(table, rawUsageName) # "null"

\* the usage names the document of key defines in ix
definedBy(ix, key) ==
    {n \in UsageNames : tableDefines(documentsGet(ix.documents, key), n)}

\* the record of an indexDocument(d) call that turns index ix into ix2
indexOp(d, ix, ix2) ==
    [op      |-> "indexDocument",
     doc     |-> d,
     again   |-> lastOp.op = "indexDocument" /\ lastOp.doc = d,
     had     |-> documentsHas(ix.documents, DocKey(d)),
     dropped |-> definedBy(ix, DocKey(d)) \ definedBy(ix2, DocKey(d))]

(***************************************************************************)
(* ensureInitialized: loadFromCache, then scanWorkspace                    *)
(***************************************************************************)
InitIdle == [pc |-> "idle", data |-> [kind |-> "unread"], pattern |-> 0,
             uris |-> <<>>, seen |-> {}]

\* scanWorkspace up to its first await: findFiles(patterns[0]) is pending
scanStarted(loc) == [loc EXCEPT !.pc = "findFiles", !.pattern = 1, !.uris = <<>>, !.seen = {}]

RECURSIVE dropSeen(_, _)
\* `if (seen.has(key)) continue;`
dropSeen(uris, seen) ==
    IF uris # <<>> /\ DocKey(Head(uris)) \in seen THEN dropSeen(Tail(uris), seen) ELSE uris

RECURSIVE indexDocuments(_, _)
\* `for (const doc of ...) await this.indexDocument(doc)` with no suspension
\* in which another task runs: indexDocument has no await of its own
indexDocuments(ix, docs) ==
    IF docs = <<>> THEN ix
    ELSE indexDocuments(indexDocument(ix, document(Head(docs))), Tail(docs))

\* the documents of a sequence that indexDocument does index
indexable(docs) == SelectSeq(docs, LAMBDA d : isIndexableDocument(document(d)))

\* scanWorkspace from the point where uris of the current pattern are left to
\* visit, up to its next await on the host (openTextDocument, findFiles) or to
\* its end: [index, timer, loc, indexed]
scanAdvance(ix, ts, loc, uris) ==
    LET rest == dropSeen(uris, loc.seen) IN
    IF rest # <<>>
    THEN [index |-> ix, timer |-> ts, indexed |-> {},
          loc |-> [loc EXCEPT !.pc = "openTextDocument", !.uris = rest,
                              !.seen = @ \cup {DocKey(Head(rest))}]]
    ELSE IF loc.pattern < Len(patterns)
    THEN [index |-> ix, timer |-> ts, indexed |-> {},
          loc |-> [loc EXCEPT !.pc = "findFiles", !.uris = <<>>, !.pattern = @ + 1]]
    ELSE [index   |-> indexDocuments(ix, textDocuments),
          timer   |-> scheduleSaves(ts, Len(indexable(textDocuments))),
          indexed |-> Range1(indexable(textDocuments)),
          loc     |-> [loc EXCEPT !.pc = "done", !.uris = <<>>]]

\* what a step of scanWorkspace leaves
ScanBecomes(r, d) ==
    /\ IndexBecomes(r.index)
    /\ TimerBecomes(r.timer)
    /\ init' = r.loc
    /\ initialScan' = IF r.loc.pc = "done" THEN "fulfilled" ELSE initialScan
    /\ removed' = removed \ r.indexed
    /\ lastOp' = [NoOp EXCEPT !.op = "scanWorkspace", !.doc = d]

\* whether ensureInitialized starts the initialization
mustStart(scan) == scan = "null"

\* a call of ensureInitialized by caller p, up to its first await on the host
ensureInitialized(p) ==
    /\ callers[p] = "idle"
    /\ callers' = [callers EXCEPT ![p] = "waiting"]
    /\ IF mustStart(initialScan)
       THEN /\ initialScan' = "pending"
            /\ IF workspaceFolders = <<>>
               THEN /\ init' = scanStarted(InitIdle)
                    /\ starts' = [load |-> starts.load + 1, scan |-> starts.scan + 1]
               ELSE /\ init' = [InitIdle EXCEPT !.pc = "readFile"]
                    /\ starts' = [starts EXCEPT !.load = @ + 1]
       ELSE UNCHANGED <<initialScan, init, starts>>
    /\ UNCHANGED <<envVars, cacheFile, indexVars, timerVars, saves, lastOp, removed,
                   burst, events>>

\* ensureInitialized called by a caller that is not a provider request
EnsureInitialized(p) == ensureInitialized(p) /\ UNCHANGED requests

\* readFile settles; the rest of loadFromCache runs, and unless it threw
\* scanWorkspace starts
ReadFileSettles ==
    /\ init.pc = "readFile"
    /\ LET r == loadFromCache(Index, cacheFile) IN
       /\ IndexBecomes(r.index)
       /\ IF r.threw
          THEN /\ init' = [init EXCEPT !.pc = "failed", !.data = cacheFile]
               /\ initialScan' = "rejected"
               /\ UNCHANGED starts
          ELSE /\ init' = scanStarted([init EXCEPT !.data = cacheFile])
               /\ starts' = [starts EXCEPT !.scan = @ + 1]
               /\ UNCHANGED initialScan
    /\ lastOp' = [NoOp EXCEPT !.op = "loadFromCache"]
    /\ UNCHANGED <<envVars, cacheFile, timerVars, saves, callers, requests, removed, burst, events>>

\* findFiles(pattern) resolves
FindFilesResolves ==
    /\ init.pc = "findFiles"
    /\ ScanBecomes(scanAdvance(Index, Timer, init,
                               findFiles(workspaceFolders, patterns[init.pattern])), "-")
    /\ UNCHANGED <<envVars, cacheFile, saves, callers, requests, starts, burst, events>>

\* openTextDocument(uri) resolves: the document is indexed
OpenTextDocumentResolves ==
    /\ init.pc = "openTextDocument"
    /\ LET d == Head(init.uris)
           r == scanAdvance(indexDocument(Index, document(d)),
                            IF isIndexableDocument(document(d)) THEN scheduleSave(Timer)
                            ELSE Timer,
                            init, Tail(init.uris))
       IN  ScanBecomes([r EXCEPT !.indexed = @ \cup {d}], d)
    /\ UNCHANGED <<envVars, cacheFile, saves, callers, requests, starts, burst, events>>

\* openTextDocument(uri) rejects (the file cannot be read): `catch { }`
OpenTextDocumentRejects ==
    /\ init.pc = "openTextDocument"
    /\ ScanBecomes(scanAdvance(Index, Timer, init, Tail(init.uris)), "-")
    /\ UNCHANGED <<envVars, cacheFile, saves, callers, requests, starts, burst, events>>

\* the await of caller p on the settled initialScan ends
ResumeCaller(p) ==
    /\ callers[p] = "waiting"
    /\ initialScan \in {"fulfilled", "rejected"}
    /\ callers' = [callers EXCEPT ![p] = IF initialScan = "fulfilled" THEN "returned"
                                         ELSE "threw"]
    /\ UNCHANGED <<envVars, cacheFile, indexVars, initialScan, init, timerVars, saves,
                   requests, lastOp, removed, starts, burst, events>>

(***************************************************************************)
(* The operations the host calls                                           *)
(***************************************************************************)
\* indexDocument(document) with scheduleSave, for document d holding text t
IndexDocumentEffect(d, t) ==
    LET doc == documentWith(d, t)
        ix2 == indexDocument(Index, doc)
    IN  /\ IndexBecomes(ix2)
        /\ TimerBecomes(IF isIndexableDocument(doc) THEN scheduleSave(Timer) ELSE Timer)
        /\ removed' = IF isIndexableDocument(doc) THEN removed \ {d} ELSE removed
        /\ lastOp' = indexOp(d, Index, ix2)

\* onDidChangeTextDocument: d gets text t in the editor and is indexed
ChangeTextDocument(d, t) ==
    /\ events < MaxEvents
    /\ d = "A"
    /\ t # text[d]
    /\ text' = [text EXCEPT ![d] = t]
    /\ LET doc == documentWith(d, t)
           ix2 == indexDocument(Index, doc)
       IN  /\ IndexBecomes(ix2)
           /\ TimerBecomes(scheduleSave(Timer))
           /\ removed' = removed \ {d}
           /\ lastOp' = [indexOp(d, Index, ix2) EXCEPT !.again = FALSE]
    /\ events' = events + 1
    /\ UNCHANGED <<workspaceFolders, cacheFile, initialScan, init, saves,
                   callers, requests, starts, burst>>

\* the file of d changes on disk; no event reaches the extension
FileChanged(d, t) ==
    /\ events < MaxEvents
    /\ d = "B"
    /\ t # text[d]
    /\ text' = [text EXCEPT ![d] = t]
    /\ lastOp' = [NoOp EXCEPT !.op = "fileChanged", !.doc = d]
    /\ events' = events + 1
    /\ UNCHANGED <<workspaceFolders, cacheFile, indexVars, initialScan, init,
                   timerVars, saves, callers, requests, removed, starts, burst>>

\* onDidOpenTextDocument, onDidSaveTextDocument: d is indexed as it is
OnDidOpenOrSave(d) ==
    /\ events < MaxEvents
    /\ IndexDocumentEffect(d, text[d])
    /\ events' = events + 1
    /\ UNCHANGED <<envVars, cacheFile, initialScan, init, saves, callers, requests, starts, burst>>

\* an indexDocument(d) call of the debounce specification: a call that finds no
\* timer pending starts a burst
IndexDocumentCall(d) ==
    /\ burst.calls < MaxCalls
    /\ IndexDocumentEffect(d, text[d])
    /\ burst' = IF isIndexableDocument(document(d))
                THEN [burst EXCEPT !.calls = @ + 1,
                                   !.bursts = IF timers = {} THEN @ + 1 ELSE @]
                ELSE burst
    /\ UNCHANGED <<envVars, cacheFile, initialScan, init, saves, callers, requests, starts, events>>

\* removeDocument(uri) for the uri of d
RemoveDocument(d) ==
    /\ events < MaxEvents
    /\ IndexBecomes(removeDocument(Index, DocUri(d)))
    /\ removed' = removed \cup {d}
    /\ lastOp' = [NoOp EXCEPT !.op = "removeDocument", !.doc = d,
                              !.had = documentsHas(documents, DocKey(d))]
    /\ events' = events + 1
    /\ UNCHANGED <<envVars, cacheFile, initialScan, init, timerVars, saves, callers, requests,
                   starts, burst>>

(***************************************************************************)
(* The debounced save                                                      *)
(***************************************************************************)
\* the timer with handle h expires: `void this.saveToCache()`, up to its
\* await of createDirectory
TimerFiresEffect(h) ==
    /\ h \in timers
    /\ Len(saves) < MaxSaves
    /\ timers' = timers \ {h}
    /\ saves' = IF workspaceFolders = <<>> THEN saves
                ELSE Append(saves, [pc |-> "createDirectory", data |-> FileAbsent])
    /\ UNCHANGED <<envVars, cacheFile, indexVars, initialScan, init, saveTimeout, callers, requests,
                   lastOp, removed, starts, events>>

TimerFires(h) ==
    /\ TimerFiresEffect(h)
    /\ burst' = [burst EXCEPT !.fires = @ + 1]

\* without position i
removeAt(seq, i) == SubSeq(seq, 1, i - 1) \o SubSeq(seq, i + 1, Len(seq))

\* createDirectory settles (a rejection is caught): the payload is built from
\* this.documents as they are now, and writeFile starts
CreateDirectorySettles(i) ==
    /\ i \in 1..Len(saves)
    /\ saves[i].pc = "createDirectory"
    /\ saves' = [saves EXCEPT ![i] = [pc |-> "writeFile",
                                       data |-> jsonStringify(payloadOf(documents))]]
    /\ UNCHANGED <<envVars, cacheFile, indexVars, initialScan, init, timerVars, callers, requests,
                   lastOp, removed, starts, burst, events>>

\* writeFile resolves: the file holds the data
WriteFileResolves(i) ==
    /\ i \in 1..Len(saves)
    /\ saves[i].pc = "writeFile"
    /\ cacheFile' = saves[i].data
    /\ saves' = removeAt(saves, i)
    /\ UNCHANGED <<envVars, indexVars, initialScan, init, timerVars, callers, requests,
                   lastOp, removed, starts, burst, events>>

(***************************************************************************)
(* The providers.  A request is one call of provideDefinition or of        *)
(* provideDocumentSemanticTokens; its token is set by the host at any time *)
(* while the request is awaiting.                                          *)
(***************************************************************************)
RECURSIVE maskFrom(_, _, _, _)
\* the loop of maskStrings from character i on, with its two flags
maskFrom(text0, i, inSingle, inDouble) ==
    IF i > Len(text0) THEN <<>>
    ELSE IF ~inSingle /\ text0[i] = "\"" /\ ~(i > 1 /\ text0[i-1] = "\\")
         THEN <<" ">> \o maskFrom(text0, i + 1, inSingle, ~inDouble)
    ELSE IF ~inDouble /\ text0[i] = "'" /\ ~(i > 1 /\ text0[i-1] = "\\")
         THEN <<" ">> \o maskFrom(text0, i + 1, ~inSingle, inDouble)
    ELSE <<IF inSingle \/ inDouble THEN " " ELSE text0[i]>>
             \o maskFrom(text0, i + 1, inSingle, inDouble)

maskStrings(text0) == maskFrom(text0, 1, FALSE, FALSE)

RECURSIVE identifierRegexGlobal(_, _)
\* the successive matches of identifierRegexGlobal in s from position p on:
\* the name and its index (0-based)
identifierRegexGlobal(s, p) ==
    IF p > Len(s) THEN <<>>
    ELSE IF IdentAt(s, p)
         THEN <<[name |-> SubSeq(s, p, IdentEnd(s, p)), index |-> p - 1]>>
                  \o identifierRegexGlobal(s, IdentEnd(s, p) + 1)
         ELSE identifierRegexGlobal(s, p + 1)

\* the legend of the semantic tokens
tokenTypes == <<"label", "constant">>

\* tokenTypes.indexOf(type)
typeIndexOf(type) ==
    IF \E i \in 1..Len(tokenTypes) : tokenTypes[i] = type
    THEN (CHOOSE i \in 1..Len(tokenTypes) : tokenTypes[i] = type) - 1
    ELSE -1

RECURSIVE pushTokens(_, _, _)
\* the builder.push calls of one line, for the matches of that line
pushTokens(ix, matches, line) ==
    IF matches = <<>> THEN <<>>
    ELSE (IF lookupSymbolKind(ix, Head(matches).name) = "null" THEN <<>>
          ELSE <<[line |-> line, char |-> Head(matches).index,
                  length |-> Len(Head(matches).name),
                  tokenType |-> typeIndexOf(IF lookupSymbolKind(ix, Head(matches).name) = "label"
                                            THEN "label" ELSE "constant")]>>)
         \o pushTokens(ix, Tail(matches), line)

RECURSIVE semanticTokens(_, _, _)
\* the loop over the lines of provideDocumentSemanticTokens from line i (1-based)
semanticTokens(ix, lines, i) ==
    IF i > Len(lines) THEN <<>>
    ELSE pushTokens(ix, identifierRegexGlobal(maskStrings(stripComment(lines[i])), 1), i - 1)
         \o semanticTokens(ix, lines, i + 1)

\* the names that identifierRegex matches in the lines: the words that
\* getWordRangeAtPosition can give, and the keys of kindCache
wordsOf(lines) ==
    UNION { { m.name : m \in Range1(identifierRegexGlobal(lines[i], 1)) } : i \in 1..Len(lines) }

\* provideDefinition(document of d, position) by caller p: `word` is the word
\* at the position, NoMatch when there is none
ProvideDefinition(p, d, word) ==
    /\ word \in wordsOf(document(d).lines) \cup {NoMatch}
    /\ initialScan # "null"
    /\ requests[p].pc = "idle"
    /\ callers[p] = "idle"
    /\ IF word = NoMatch
       THEN /\ requests' = [requests EXCEPT ![p] =
                   [NoRequest EXCEPT !.kind = "definition", !.doc = d, !.pc = "done",
                                     !.result = [kind |-> "null", items |-> <<>>]]]
            /\ UNCHANGED <<envVars, cacheFile, indexVars, initialScan, init, timerVars,
                           saves, callers, lastOp, removed, starts, burst, events>>
       ELSE /\ ensureInitialized(p)
            /\ requests' = [requests EXCEPT ![p] =
                   [NoRequest EXCEPT !.kind = "definition", !.doc = d, !.word = word,
                                     !.pc = "ensureInitialized"]]

\* provideDocumentSemanticTokens(document of d) by caller p
ProvideDocumentSemanticTokens(p, d) ==
    /\ initialScan # "null"
    /\ requests[p].pc = "idle"
    /\ ensureInitialized(p)
    /\ requests' = [requests EXCEPT ![p] =
           [NoRequest EXCEPT !.kind = "semanticTokens", !.doc = d,
                             !.pc = "ensureInitialized"]]

\* the host sets isCancellationRequested of the token of request p
CancelRequest(p) ==
    /\ requests[p].pc \in {"ensureInitialized", "indexDocument"}
    /\ ~requests[p].cancelled
    /\ requests' = [requests EXCEPT ![p].cancelled = TRUE]
    /\ UNCHANGED <<envVars, cacheFile, indexVars, initialScan, init, timerVars, saves,
                   callers, lastOp, removed, starts, burst, events>>

\* a token that is never seen as cancelled
tokenIgnored(request) == FALSE

\* token.isCancellationRequested, as the request reads it
isCancellationRequested(request) == request.cancelled

\* a call that goes on without awaiting the promise
awaitSkipped(scan) == TRUE

\* `await promise` ends once the promise is settled
awaitEnds(scan) == scan \in {"fulfilled", "rejected"}

\* the empty result of a request: null, or the tokens of an empty builder
emptyResult(kind) ==
    IF kind = "definition" THEN [kind |-> "null", items |-> <<>>]
    ELSE [kind |-> "tokens", items |-> <<>>]

\* `await this.index.ensureInitialized()` ends in request p: it throws when
\* initialScan is rejected; else the token is tested and indexDocument(document)
\* runs up to its return
EnsureInitializedReturns(p) ==
    /\ requests[p].pc = "ensureInitialized"
    /\ callers[p] = "waiting"
    /\ awaitEnds(initialScan)
    /\ callers' = [callers EXCEPT ![p] = IF initialScan = "rejected" THEN "threw"
                                         ELSE "returned"]
    /\ IF initialScan = "rejected"
       THEN /\ requests' = [requests EXCEPT ![p].pc = "threw"]
            /\ UNCHANGED <<indexVars, timerVars, lastOp, removed>>
       ELSE IF isCancellationRequested(requests[p])
       THEN /\ requests' = [requests EXCEPT ![p].pc = "done",
                                            ![p].result = emptyResult(requests[p].kind)]
            /\ UNCHANGED <<indexVars, timerVars, lastOp, removed>>
       ELSE /\ IndexDocumentEffect(requests[p].doc, text[requests[p].doc])
            /\ requests' = [requests EXCEPT ![p].pc = "indexDocument",
                                            ![p].indexed = TRUE]
    /\ UNCHANGED <<envVars, cacheFile, initialScan, init, saves, starts, burst, events>>

\* `await this.index.indexDocument(document)` ends in request p: the token is
\* tested, then findDefinitions, or lookupSymbolKind for each name of the
\* document, gives the result
IndexDocumentReturns(p) ==
    /\ requests[p].pc = "indexDocument"
    /\ requests' = [requests EXCEPT ![p] =
           IF isCancellationRequested(requests[p])
           THEN [requests[p] EXCEPT !.pc = "done", !.result = emptyResult(requests[p].kind)]
           ELSE IF requests[p].kind = "definition"
           THEN [requests[p] EXCEPT
                    !.pc = "done", !.lookups = 1,
                    !.result =
                        IF findDefinitions(Index, requests[p].word) = <<>>
                        THEN [kind |-> "null", items |-> <<>>]
                        ELSE [kind |-> "locations",
                              items |-> findDefinitions(Index, requests[p].word)]]
           ELSE [requests[p] EXCEPT
                    !.pc = "done",
                    !.lookups = Cardinality(
                        wordsOf([i \in 1..Len(document(requests[p].doc).lines) |->
                            maskStrings(stripComment(document(requests[p].doc).lines[i]))])),
                    !.result = [kind |-> "tokens",
                                items |-> semanticTokens(Index,
                                              document(requests[p].doc).lines, 1)]]]
    /\ UNCHANGED <<envVars, cacheFile, indexVars, initialScan, init, timerVars, saves,
                   callers, lastOp, removed, starts, burst, events>>

(***************************************************************************)
(* The specification                                                       *)
(***************************************************************************)
tableOf(t) == buildSymbolTable(documentWith("A", t))

\* a cache as saveToCache wrote it in an earlier session, when G existed and A
\* held another text
StaleCache ==
    jsonStringify(payloadOf(<< [key |-> DocKey("G"), table |-> tableOf(1)],
                               [key |-> DocKey("A"), table |-> tableOf(3)] >>))

\* a cache of the workspace as it is
FreshCache ==
    jsonStringify(payloadOf(<< [key |-> DocKey("B"), table |-> tableOf(3)],
                               [key |-> DocKey("A"), table |-> tableOf(1)] >>))

\* JSON text without a `documents` field: {}
NoDocumentsCache == jsonStringify(EmptyMap)

\* a cache whose second record has no valuesSensitive and no valuesInsensitive
NoBucketCache ==
    jsonStringify(
        [documents |-> << persistTable(DocKey("A"), tableOf(3)),
                          [uri |-> DocKey("B"),
                           labelsSensitive |-> mapToRecord(tableOf(1).labelsSensitive),
                           labelsInsensitive |-> EmptyMap] >>])

\* a cache that does not have the documented shape
Malformed(file) ==
    /\ file.kind = "bytes"
    /\ jsonParses(file)
    /\ \/ "documents" \notin DOMAIN jsonParse(file)
       \/ \E i \in 1..Len(jsonParse(file).documents) :
              ~(RecordFields \subseteq DOMAIN jsonParse(file).documents[i])

CacheContents ==
    {FileAbsent, FileGarbage, NoDocumentsCache, NoBucketCache, StaleCache, FreshCache}

\* the cache contents of the session specifications: no file, a file whose
\* second record is incomplete, a file of an earlier session
SessionCaches == {FileAbsent, NoBucketCache, StaleCache}

InitRest ==
    /\ documents = <<>>
    /\ labelsSensitive = EmptyMap
    /\ labelsInsensitive = EmptyMap
    /\ valuesSensitive = EmptyMap
    /\ valuesInsensitive = EmptyMap
    /\ initialScan = "null"
    /\ init = InitIdle
    /\ saveTimeout = 0
    /\ timers = {}
    /\ saves = <<>>
    /\ callers = [p \in Callers |-> "idle"]
    /\ requests = [p \in Callers |-> NoRequest]
    /\ lastOp = NoOp
    /\ removed = {}
    /\ starts = [load |-> 0, scan |-> 0]
    /\ burst = [calls |-> 0, bursts |-> 0, fires |-> 0]
    /\ events = 0

Init ==
    /\ text = [d \in HeldDocs |-> IF d = "B" THEN 3 ELSE 1]
    /\ workspaceFolders = <<WorkspaceRoot>>
    /\ cacheFile \in SessionCaches
    /\ InitRest

\* activate() ends with `void index.ensureInitialized()`
Activate == EnsureInitialized(1)

Next ==
    \/ Activate
    \/ ReadFileSettles
    \/ FindFilesResolves
    \/ OpenTextDocumentResolves
    \/ OpenTextDocumentRejects
    \/ \E d \in TextDocs, t \in TextIds : ChangeTextDocument(d, t)
    \/ \E d \in TextDocs, t \in TextIds : FileChanged(d, t)
    \/ \E d \in {"A", "B", "N"} : OnDidOpenOrSave(d)
    \/ \E d \in {"A", "B", "G"} : RemoveDocument(d)

Spec == Init /\ [][Next]_vars

\* initialization alone, from any texts, with or without a workspace folder,
\* with any number of callers
InitAny ==
    /\ text \in [HeldDocs -> TextIds]
    /\ workspaceFolders \in {<<>>, <<WorkspaceRoot>>}
    /\ cacheFile \in CacheContents
    /\ InitRest

NextInit ==
    \/ \E p \in Callers : EnsureInitialized(p)
    \/ ReadFileSettles
    \/ FindFilesResolves
    \/ OpenTextDocumentResolves
    \/ \E p \in Callers : ResumeCaller(p)

SpecInit == InitAny /\ [][NextInit]_vars

\* indexDocument(d) for the document of d as it is, from any index state
ScanDocument(d) ==
    /\ IndexDocumentEffect(d, text[d])
    /\ UNCHANGED <<envVars, cacheFile, initialScan, init, saves, callers, requests, starts, burst,
                   events>>

\* the two workspace documents hold any two texts; nothing else happens than
\* their indexing, in any order and any number of times
InitScan ==
    /\ text \in [HeldDocs -> AllTextIds]
    /\ text["N"] = 1
    /\ workspaceFolders = <<WorkspaceRoot>>
    /\ cacheFile = FileAbsent
    /\ InitRest

NextScan == \E d \in TextDocs : ScanDocument(d)

SpecScan == InitScan /\ [][NextScan]_vars

\* the cache load and the scan, from any cache contents, while the open and
\* save handlers index documents
NextLoad ==
    \/ Activate
    \/ ReadFileSettles
    \/ FindFilesResolves
    \/ OpenTextDocumentResolves
    \/ \E d \in TextDocs : OnDidOpenOrSave(d)

InitLoad ==
    /\ text = [d \in HeldDocs |-> IF d = "B" THEN 3 ELSE 1]
    /\ workspaceFolders = <<WorkspaceRoot>>
    /\ cacheFile \in CacheContents
    /\ InitRest

SpecLoad == InitLoad /\ [][NextLoad]_vars

\* the requests of the providers, from any cache contents: activate() starts
\* the initialization, requests come, the host cancels them or not
NextRequest ==
    \/ Activate
    \/ ReadFileSettles
    \/ FindFilesResolves
    \/ OpenTextDocumentResolves
    \/ \E p \in Callers, d \in TextDocs,
           word \in UNION { wordsOf(AllTexts[t]) : t \in TextIds } \cup {NoMatch} :
               ProvideDefinition(p, d, word)
    \/ \E p \in Callers, d \in TextDocs : ProvideDocumentSemanticTokens(p, d)
    \/ \E p \in Callers : CancelRequest(p)
    \/ \E p \in Callers : EnsureInitializedReturns(p)
    \/ \E p \in Callers : IndexDocumentReturns(p)

SpecRequest == InitLoad /\ [][NextRequest]_vars

\* the debounced save under indexDocument calls
NextSave ==
    \/ \E d \in HeldDocs : IndexDocumentCall(d)
    \/ RemoveDocument("A")
    \/ \E h \in timers : TimerFires(h)
    \/ \E i \in 1..MaxSaves : CreateDirectorySettles(i)
    \/ \E i \in 1..MaxSaves : WriteFileResolves(i)

SpecSave == Init /\ [][NextSave]_vars

(***************************************************************************)
(* Properties of the index                                                 *)
(***************************************************************************)
\* the locations of a list that lie in the document with this key
LocsIn(locs, key) == SelectSeq(locs, LAMBDA loc : uriToString(loc.uri) = key)

\* the locations of a list that lie in other documents
LocsNotIn(locs, key) == SelectSeq(locs, LAMBDA loc : uriToString(loc.uri) # key)

RangesOf(locs) == [i \in 1..Len(locs) |-> locs[i].range]

\* the aggregated maps of ix as the documents other than that of key fill them
OthersOnly(ix, key) ==
    [b \in Buckets |->
        [n \in {m \in DOMAIN ix[b] : LocsNotIn(ix[b][m], key) # <<>>} |->
            LocsNotIn(ix[b][n], key)]]

\* C1: in every state between two steps, each aggregated map holds exactly the
\* entries of the matching bucket of the tables in `documents`: every location
\* belongs to a stored document, and for each stored document and name the
\* ranges the map holds for that document are the ranges of its table, each
\* once.
C1_AggregatedMapsMatchDocuments ==
    \A b \in Buckets :
        /\ \A n \in DOMAIN Index[b] : \A i \in 1..Len(Index[b][n]) :
               documentsHas(documents, uriToString(Index[b][n][i].uri))
        /\ \A i \in 1..Len(documents) :
               \A n \in DOMAIN Index[b] \cup DOMAIN documents[i].table[b] :
                   RangesOf(LocsIn(mapGet(Index[b], n), documents[i].key))
                       = mapGet(documents[i].table[b], n)

\* C1 witness: the cache was loaded, the scan has ended, a document was
\* removed and one indexed, and two documents are stored
C1_Witness ==
    /\ init.pc = "done"
    /\ init.data.kind = "bytes"
    /\ removed # {}
    /\ lastOp.op = "indexDocument"
    /\ Len(documents) >= 2

\* C2: when indexDocument(D) re-indexes D and D no longer defines a name n it
\* defined before, findDefinitions(n) has no location in D and is what the
\* other documents' entries alone give.
C2_ReindexDropsOnlyOwnEntries ==
    [][lastOp'.op = "indexDocument" =>
          \A n \in lastOp'.dropped :
              /\ LocsIn(findDefinitions(Index', n), DocKey(lastOp'.doc)) = <<>>
              /\ findDefinitions(Index', n)
                     = findDefinitions(OthersOnly(Index, DocKey(lastOp'.doc)), n)]_vars

\* C2 witness: a re-indexed document dropped a name that another document
\* still defines
C2_Witness ==
    /\ lastOp.op = "indexDocument"
    /\ \E n \in lastOp.dropped : findDefinitions(Index, n) # <<>>

\* C3: after removeDocument(uri) no findDefinitions result has a location
\* with that uri, and `documents` and the four aggregated maps hold for
\* every other document what they held before.
C3_RemoveDocumentFrame ==
    [][lastOp'.op = "removeDocument" =>
          /\ \A n \in UsageNames :
                 LocsIn(findDefinitions(Index', n), DocKey(lastOp'.doc)) = <<>>
          /\ documents' = SelectSeq(documents, LAMBDA e : e.key # DocKey(lastOp'.doc))
          /\ \A b \in Buckets : \A n \in DOMAIN Index[b] \cup DOMAIN Index'[b] :
                 mapGet(Index'[b], n) = LocsNotIn(mapGet(Index[b], n), DocKey(lastOp'.doc))]_vars

\* C3 witness: a stored document was removed and another is still stored
C3_Witness ==
    /\ lastOp.op = "removeDocument"
    /\ lastOp.had
    /\ documents # <<>>

\* C4: the index holds no entry for a document that removeDocument removed
\* and that was not indexed again since.
C4_NoEntryOutlivesRemoval ==
    \A d \in removed :
        /\ ~documentsHas(documents, DocKey(d))
        /\ \A b \in Buckets : \A n \in DOMAIN Index[b] :
               LocsIn(Index[b][n], DocKey(d)) = <<>>

\* C5: a second indexDocument(D) right after the first, the text unchanged,
\* leaves `documents` and the four aggregated maps as the first left them.
C5_IndexDocumentIdempotent ==
    [][(lastOp'.op = "indexDocument" /\ lastOp'.again) => Index' = Index]_vars

\* C5 witness: an indexable document was indexed twice in a row while another
\* document was stored
C5_Witness ==
    /\ lastOp.op = "indexDocument"
    /\ lastOp.again
    /\ documentsHas(documents, DocKey(lastOp.doc))
    /\ Len(documents) >= 2

\* the index that loadFromCache builds from what saveToCache writes now
Reloaded == loadFromCache(EmptyIndex, jsonStringify(payloadOf(documents))).index

\* C9: saving the index and loading it into an empty index gives for every
\* usage name the same lookupSymbolKind and the same findDefinitions list.
C9_SaveLoadRoundTrip ==
    \A n \in UsageNames :
        /\ lookupSymbolKind(Reloaded, n) = lookupSymbolKind(Index, n)
        /\ findDefinitions(Reloaded, n) = findDefinitions(Index, n)

(***************************************************************************)
(* Properties of initialization and of the save timer                      *)
(***************************************************************************)
\* the files scanWorkspace visits: no file matches both patterns
ScannedFiles ==
    findFiles(workspaceFolders, patterns[1]) \o findFiles(workspaceFolders, patterns[2])

\* the index ensureInitialized leaves when there is no cache file: the scan of
\* the texts as they are, into an empty index
ColdIndex == indexDocuments(indexDocuments(EmptyIndex, ScannedFiles), textDocuments)

\* C6: with a cache file that parses as JSON but has not the documented shape,
\* ensureInitialized does not fail, the scan runs, and the index the
\* initialization ends with is the one of a run without cache file.
C6_MalformedCacheLikeNoCache ==
    (Malformed(cacheFile) /\ workspaceFolders # <<>>) =>
        /\ initialScan # "rejected"
        /\ init.pc # "failed"
        /\ \A p \in Callers : callers[p] # "threw"
        /\ initialScan = "fulfilled" => Index = ColdIndex

\* C7: the cache load and the scan each start at most once, and no caller's
\* wait on the memoized operation ends before the scan has finished.
C7_InitializedOnceAndAwaited ==
    /\ starts.load <= 1
    /\ starts.scan <= 1
    /\ \A p \in Callers : callers[p] \in {"returned", "threw"} => init.pc = "done"

\* C8: at most one save timer is pending, the pending timer is that of the
\* last scheduleSave call, and every burst of calls leads to one firing: the
\* firings so far and the pending timer add up to the bursts started.
C8_OneTimerOneSavePerBurst ==
    /\ Cardinality(timers) <= 1
    /\ timers \subseteq {saveTimeout}
    /\ burst.fires + Cardinality(timers) = burst.bursts

\* C8 witness: a single burst of three or more calls, whose one timer has fired
C8_Witness ==
    /\ burst.calls >= 3
    /\ burst.bursts = 1
    /\ burst.fires = 1
    /\ timers = {}

\* C10: when ensureInitialized completes, `documents` and the aggregated maps
\* are those a run over the same texts without cache file ends with.
C10_IndexIndependentOfCache ==
    initialScan = "fulfilled" => Index = ColdIndex

(***************************************************************************)
(* Properties of the cache file                                            *)
(***************************************************************************)
\* every scheduled timer has fired and every started write has completed
Quiescent == timers = {} /\ saves = <<>>

\* C11: after indexDocument and removeDocument calls, once a save was
\* scheduled and all timers have fired and all writes completed, the cache file
\* holds the serialization of the tables `documents` holds.
C11_CacheMirrorsDocumentsAtRest ==
    (Quiescent /\ burst.calls >= 1 /\ workspaceFolders # <<>>) =>
        cacheFile = jsonStringify(payloadOf(documents))

(***************************************************************************)
(* Properties of the case policy and of what a line defines                *)
(***************************************************************************)
\* usage names without the `?` marker, in several spellings
PlainUsages ==
    { <<"f","o","o">>, <<"F","O","O">>, <<"F","o","o">>,
      <<"b","a","r">>, <<"B","A","R">>, <<"x">>, <<"X">> }

\* the entries the sensitive buckets of ix hold under exactly this spelling:
\* Labels, then Values
SensitiveLocs(ix, name) ==
    mapGet(ix.labelsSensitive, name) \o mapGet(ix.valuesSensitive, name)

\* the entries the insensitive buckets of ix hold under the lower-cased name
InsensitiveLocs(ix, name) ==
    mapGet(ix.labelsInsensitive, toLowerCase(name)) \o
    mapGet(ix.valuesInsensitive, toLowerCase(name))

\* the sensitive buckets hold the name in another spelling
OtherCaseStored(ix, name) ==
    \E k \in DOMAIN ix.labelsSensitive \cup DOMAIN ix.valuesSensitive :
        k # name /\ toLowerCase(k) = toLowerCase(name)

\* C12: for a usage without `?`, a definition stored as case-insensitive is
\* found under every spelling that has no sensitive definition of its own,
\* and a definition stored as case-sensitive is found under its exact
\* spelling only: a spelling with neither finds nothing.
C12_CasePolicyOfLookup ==
    \A u \in PlainUsages :
        /\ (InsensitiveLocs(Index, u) # <<>> /\ SensitiveLocs(Index, u) = <<>>) =>
               /\ lookupSymbolKind(Index, u) # "null"
               /\ findDefinitions(Index, u) = toLocations(InsensitiveLocs(Index, u))
        /\ SensitiveLocs(Index, u) # <<>> =>
               /\ lookupSymbolKind(Index, u) # "null"
               /\ findDefinitions(Index, u) # <<>>
        /\ (InsensitiveLocs(Index, u) = <<>> /\ SensitiveLocs(Index, u) = <<>>) =>
               /\ lookupSymbolKind(Index, u) = "null"
               /\ findDefinitions(Index, u) = <<>>

\* C12 witness: `foo` is stored insensitive and found as FOO, while `bar` is
\* stored sensitive and BAR finds nothing
C12_Witness ==
    /\ InsensitiveLocs(Index, <<"F","O","O">>) # <<>>
    /\ SensitiveLocs(Index, <<"F","O","O">>) = <<>>
    /\ findDefinitions(Index, <<"F","O","O">>) # <<>>
    /\ OtherCaseStored(Index, <<"B","A","R">>)
    /\ findDefinitions(Index, <<"B","A","R">>) = <<>>

\* what each text of AllTexts is written to define, by the grammar of the
\* constructs: the name as written (with its `?` marker), the kind, the line
\* and the column where the name token stands
Written ==
    << << [name |-> <<"f","o","o">>, kind |-> "label", line |-> 0, col |-> 0], [name |-> <<"f","o","o","?">>, kind |-> "value", line |-> 1, col |-> 0] >>,
       << [name |-> <<"_","_","p","r","o","t","o","_","_">>, kind |-> "label", line |-> 0, col |-> 0], [name |-> <<"b","a","r">>, kind |-> "label", line |-> 2, col |-> 0], [name |-> <<"F","O","O">>, kind |-> "value", line |-> 3, col |-> 0] >>,
       << [name |-> <<"F","o","o","?">>, kind |-> "label", line |-> 0, col |-> 2], [name |-> <<"f","o","o">>, kind |-> "label", line |-> 1, col |-> 0], [name |-> <<"f","o","o">>, kind |-> "value", line |-> 2, col |-> 0] >>,
       << [name |-> <<"f","o","o","?">>, kind |-> "label", line |-> 0, col |-> 0] >>,
       << [name |-> <<"f","o","o","?">>, kind |-> "label", line |-> 0, col |-> 0] >>,
       << [name |-> <<"f","o","o","?">>, kind |-> "label", line |-> 0, col |-> 6] >>,
       << [name |-> <<"f","o","o","?">>, kind |-> "value", line |-> 0, col |-> 8] >>,
       << [name |-> <<"f","o","o","?">>, kind |-> "value", line |-> 0, col |-> 7] >>,
       << [name |-> <<"f","o","o","?">>, kind |-> "value", line |-> 0, col |-> 9] >>,
       << [name |-> <<"f","o","o","?">>, kind |-> "value", line |-> 0, col |-> 0] >>,
       << [name |-> <<"f","o","o","?">>, kind |-> "value", line |-> 0, col |-> 0] >>,
       << [name |-> <<"f","o","o","?">>, kind |-> "value", line |-> 0, col |-> 6] >>,
       << [name |-> <<"f","o","o","?">>, kind |-> "value", line |-> 0, col |-> 0] >>,
       << [name |-> <<"f","o","o","?">>, kind |-> "value", line |-> 0, col |-> 5] >>,
       << [name |-> <<"f","o","o">>, kind |-> "label", line |-> 0, col |-> 0] >>,
       << [name |-> <<"f","o","o">>, kind |-> "value", line |-> 0, col |-> 0] >>,
       << [name |-> <<"b","a","r">>, kind |-> "label", line |-> 0, col |-> 6] >>,
       << [name |-> <<"e","l">>, kind |-> "label", line |-> 0, col |-> 6] >>,
       << [name |-> <<"x">>, kind |-> "value", line |-> 0, col |-> 0] >>,
       << [name |-> <<"x">>, kind |-> "value", line |-> 0, col |-> 0] >>,
       << [name |-> <<"x">>, kind |-> "value", line |-> 0, col |-> 0] >>,
       << [name |-> <<"x">>, kind |-> "value", line |-> 0, col |-> 0] >> >>

\* the definitions written in the text that d holds
WrittenIn(d) == Range1(Written[text[d]])

\* the name is written with the `?` marker
IsMarked(name) == Len(name) > 1 /\ name[Len(name)] = "?"

\* the name without its marker
Unmarked(name) == IF IsMarked(name) THEN SubSeq(name, 1, Len(name) - 1) ELSE name

\* the bucket of a kind and a case tier
BucketOf(kind, insensitive) ==
    IF kind = "label"
    THEN (IF insensitive THEN "labelsInsensitive" ELSE "labelsSensitive")
    ELSE (IF insensitive THEN "valuesInsensitive" ELSE "valuesSensitive")

\* d was indexed with the text it holds
Indexed(d) == documentsHas(documents, DocKey(d))

\* C13: a name written with a trailing `?`, in whichever construct, is stored
\* in the insensitive bucket of its kind under its lower-cased name without
\* the `?`, so that every plain spelling of it resolves.
C13_MarkedNamesStoredInsensitive ==
    \A d \in TextDocs : Indexed(d) =>
        \A w \in WrittenIn(d) : IsMarked(w.name) =>
            /\ hasEntries(documentsGet(documents, DocKey(d))[BucketOf(w.kind, TRUE)],
                          toLowerCase(Unmarked(w.name)))
            /\ \A u \in PlainUsages :
                   toLowerCase(u) = toLowerCase(Unmarked(w.name)) =>
                       lookupSymbolKind(Index, u) # "null"

\* the usage names the position properties look up
PositionUsages == PlainUsages \cup UsageNames \cup { <<"e","l">> }

\* the range of loc covers the name token of the written definition w: it
\* starts where the token stands and spans the name, with or without marker
CoversToken(loc, w) ==
    /\ loc.range.start = Position(w.line, w.col)
    /\ loc.range.end.line = w.line
    /\ loc.range.end.character - w.col \in {Len(w.name), Len(Unmarked(w.name))}

\* C14: after indexDocument(D), every location in D that findDefinitions
\* returns for a spelling of a name lies on the line of a definition of that
\* name in D and covers the name token of that definition.
C14_LocationsCoverNameToken ==
    \A d \in TextDocs : Indexed(d) =>
        \A u \in PositionUsages :
            \A i \in 1..Len(LocsIn(findDefinitions(Index, u), DocKey(d))) :
                \E w \in WrittenIn(d) :
                    /\ toLowerCase(Unmarked(w.name)) = toLowerCase(Unmarked(u))
                    /\ CoversToken(LocsIn(findDefinitions(Index, u), DocKey(d))[i], w)

\* the usage reaches the insensitive tier of ix: it carries the marker, or the
\* sensitive tier holds nothing under its spelling
ReachesInsensitive(ix, u) == IsMarked(u) \/ SensitiveLocs(ix, u) = <<>>

\* C15: when the tier a usage reaches holds both a Label and a Value under
\* the usage's canonical name, whichever documents define them,
\* lookupSymbolKind returns Label; so does lookupSymbolKindInTable on a table.
C15_LabelBeforeValue ==
    \A u \in PositionUsages :
        /\ (/\ ~IsMarked(u)
            /\ hasEntries(labelsSensitive, u)
            /\ hasEntries(valuesSensitive, u)) => lookupSymbolKind(Index, u) = "label"
        /\ (/\ ReachesInsensitive(Index, u)
            /\ hasEntries(labelsInsensitive, toLowerCase(Unmarked(u)))
            /\ hasEntries(valuesInsensitive, toLowerCase(Unmarked(u))))
               => lookupSymbolKind(Index, u) = "label"
        /\ \A i \in 1..Len(documents) :
               (/\ ~IsMarked(u)
                /\ hasEntries(documents[i].table.labelsSensitive, u)
                /\ hasEntries(documents[i].table.valuesSensitive, u))
                   => lookupSymbolKindInTable(documents[i].table, u) = "label"

\* C15 witness: `foo` has a Label and a Value in the sensitive tier and in the
\* insensitive tier, from two documents, and both tiers answer Label
C15_Witness ==
    /\ Len(documents) = 2
    /\ hasEntries(labelsSensitive, <<"f","o","o">>)
    /\ hasEntries(valuesSensitive, <<"f","o","o">>)
    /\ hasEntries(labelsInsensitive, <<"f","o","o">>)
    /\ hasEntries(valuesInsensitive, <<"f","o","o">>)
    /\ lookupSymbolKind(Index, <<"f","o","o">>) = "label"
    /\ lookupSymbolKind(Index, <<"f","o","o","?">>) = "label"

\* C16: for a usage without `?` whose exact spelling has a sensitive
\* definition, findDefinitions returns the sensitive Labels, then the
\* sensitive Values, and nothing of an insensitive bucket, and
\* lookupSymbolKind returns the kind the sensitive tier gives.
C16_SensitiveTierShortCircuits ==
    \A u \in PlainUsages : SensitiveLocs(Index, u) # <<>> =>
        /\ findDefinitions(Index, u) = toLocations(SensitiveLocs(Index, u))
        /\ lookupSymbolKind(Index, u) =
               IF hasEntries(labelsSensitive, u) THEN "label" ELSE "value"

\* C16 witness: `foo` is a sensitive Value and an insensitive Label; the usage
\* `foo` is a Value and has the sensitive location only
C16_Witness ==
    /\ ~hasEntries(labelsSensitive, <<"f","o","o">>)
    /\ hasEntries(valuesSensitive, <<"f","o","o">>)
    /\ hasEntries(labelsInsensitive, <<"f","o","o">>)
    /\ lookupSymbolKind(Index, <<"f","o","o">>) = "value"
    /\ Len(findDefinitions(Index, <<"f","o","o">>)) = Len(valuesSensitive[<<"f","o","o">>])

\* usage names that carry the `?` marker
MarkedUsages ==
    { <<"f","o","o","?">>, <<"F","O","O","?">>, <<"b","a","r","?">>,
      <<"e","l","?">>, <<"x","?">> }

\* C19: a usage with a trailing `?` gets the entries of the insensitive
\* buckets under its lower-cased base name and nothing else: with no
\* insensitive definition lookupSymbolKind returns null and findDefinitions
\* returns the empty list, whatever the sensitive buckets hold.
C19_MarkedUsageSkipsSensitiveTier ==
    \A u \in MarkedUsages :
        /\ findDefinitions(Index, u) = toLocations(InsensitiveLocs(Index, Unmarked(u)))
        /\ lookupSymbolKind(Index, u) =
               IF hasEntries(labelsInsensitive, toLowerCase(Unmarked(u))) THEN "label"
               ELSE IF hasEntries(valuesInsensitive, toLowerCase(Unmarked(u))) THEN "value"
               ELSE "null"
        /\ InsensitiveLocs(Index, Unmarked(u)) = <<>> =>
               /\ lookupSymbolKind(Index, u) = "null"
               /\ findDefinitions(Index, u) = <<>>

\* C19 witness: `foo` has sensitive definitions only, in this very spelling;
\* the usage `foo` finds them and the usage `foo?` finds nothing
C19_Witness ==
    /\ SensitiveLocs(Index, <<"f","o","o">>) # <<>>
    /\ InsensitiveLocs(Index, <<"f","o","o">>) = <<>>
    /\ findDefinitions(Index, <<"f","o","o">>) # <<>>
    /\ findDefinitions(Index, <<"f","o","o","?">>) = <<>>
    /\ lookupSymbolKind(Index, <<"f","o","o","?">>) = "null"

\* the texts of AllTexts that are one line made of an identifier, optional
\* whitespace and one of `:=`, `=:`, `=`
AssignmentTexts == { t \in AllTextIds :
    AllTexts[t] \in { << <<"f","o","o","?"," ","="," ","1">> >>,
                      << <<"f","o","o"," ","="," ","1">> >>,
                      << <<"x",":","=","1">> >>,
                      << <<"x"," ",":","="," ","1">> >>,
                      << <<"x","=",":","1">> >>,
                      << <<"x"," ","="," ","1">> >> } }

\* the name is stored in the table under one of the label buckets
StoredAsLabel(table, name) ==
    \/ hasEntries(table.labelsSensitive, name)
    \/ hasEntries(table.labelsInsensitive, name)

\* the name is stored in the table under one of the value buckets
StoredAsValue(table, name) ==
    \/ hasEntries(table.valuesSensitive, name)
    \/ hasEntries(table.valuesInsensitive, name)

\* C20: a line made of an identifier, optional whitespace and one of `:=`,
\* `=:`, `=` stores the identifier as a Value of the document and not as a
\* Label, and lookupSymbolKind of the identifier is Value.
C20_AssignmentDefinesValueOnly ==
    \A d \in TextDocs : (Indexed(d) /\ text[d] \in AssignmentTexts) =>
        \A w \in WrittenIn(d) :
            /\ StoredAsValue(documentsGet(documents, DocKey(d)),
                             toLowerCase(Unmarked(w.name)))
            /\ ~StoredAsLabel(documentsGet(documents, DocKey(d)),
                              toLowerCase(Unmarked(w.name)))

\* the table holds, in a bucket of the kind, a range on the line under the
\* name as written without its marker or under its lower-cased form
DefinedOnLine(table, kind, name, line) ==
    \E insensitive \in BOOLEAN :
        \E k \in {Unmarked(name), toLowerCase(Unmarked(name))} :
            \E i \in 1..Len(mapGet(table[BucketOf(kind, insensitive)], k)) :
                mapGet(table[BucketOf(kind, insensitive)], k)[i].start.line = line

\* the kind that is not this one
OtherKind(kind) == IF kind = "label" THEN "value" ELSE "label"

\* C21: a label-colon, data-declaration or `label` definition is stored in a
\* Label bucket of the document's table, an `element`, `define`, `redefine`,
\* `equ`, `reequ`, `macro`, assignment or `load` definition in a Value
\* bucket, and none of them in a bucket of the other kind.
C21_ConstructKinds ==
    \A d \in TextDocs : Indexed(d) =>
        \A w \in WrittenIn(d) :
            /\ DefinedOnLine(documentsGet(documents, DocKey(d)), w.kind, w.name, w.line)
            /\ ~DefinedOnLine(documentsGet(documents, DocKey(d)), OtherKind(w.kind),
                              w.name, w.line)

\* every usage name looked up: plain and marked spellings, the empty name
\* and the marker alone
AllUsages == PositionUsages \cup MarkedUsages \cup { <<>>, <<"?">> }

\* the entries of the aggregated maps that a lookup of the usage walks, in
\* order: those of the sensitive tier when the usage is plain and the tier
\* holds its spelling, else those of the insensitive tier
Walked(ix, u) ==
    IF ~IsMarked(u) /\ SensitiveLocs(ix, u) # <<>>
    THEN SensitiveLocs(ix, u)
    ELSE InsensitiveLocs(ix, Unmarked(u))

\* C23: lookupSymbolKind of a usage is non-null exactly when findDefinitions
\* of it is non-empty, and then it is the kind of the entry that the first
\* location of findDefinitions is made from.
C23_KindAgreesWithDefinitions ==
    \A u \in AllUsages :
        /\ findDefinitions(Index, u) = toLocations(Walked(Index, u))
        /\ lookupSymbolKind(Index, u) # "null" <=> findDefinitions(Index, u) # <<>>
        /\ lookupSymbolKind(Index, u) # "null" =>
               lookupSymbolKind(Index, u) = Walked(Index, u)[1].kind

\* C23 witness: `foo` is a sensitive Value and an insensitive Label, `bar` is
\* nowhere: `foo` answers Value, `foo?` answers Label, `bar` answers nothing
C23_Witness ==
    /\ lookupSymbolKind(Index, <<"f","o","o">>) = "value"
    /\ Walked(Index, <<"f","o","o">>)[1].kind = "value"
    /\ lookupSymbolKind(Index, <<"f","o","o","?">>) = "label"
    /\ lookupSymbolKind(Index, <<"b","a","r">>) = "null"
    /\ findDefinitions(Index, <<"b","a","r">>) = <<>>

(***************************************************************************)
(* Properties of the cache load                                            *)
(***************************************************************************)
\* what ix holds for the document of key: its table, and its ranges in each
\* aggregated list
EntriesOf(ix, key) ==
    [has    |-> documentsHas(ix.documents, key),
     table  |-> documentsGet(ix.documents, key),
     ranges |-> [b \in Buckets |->
                   [n \in {m \in DOMAIN ix[b] : LocsIn(ix[b][m], key) # <<>>} |->
                       RangesOf(LocsIn(ix[b][n], key))]]]

\* C17: the entries indexDocument stored for a document stay as they are
\* until the document is indexed again or removed: the step in which the
\* cache load completes leaves the entries of every stored document alone.
C17_CacheLoadKeepsIndexedEntries ==
    [][lastOp'.op = "loadFromCache" =>
          \A i \in 1..Len(documents) :
              EntriesOf(Index', documents[i].key) = EntriesOf(Index, documents[i].key)]_vars

\* C18: when readFile fails or the content is not JSON, the step in which
\* loadFromCache ends leaves `documents` and the four aggregated maps as they
\* were, and scanWorkspace starts.
C18_UnreadableCacheLeavesIndex ==
    [][(lastOp'.op = "loadFromCache" /\ init'.data \in {FileAbsent, FileGarbage}) =>
          /\ Index' = Index
          /\ init'.pc = "findFiles"
          /\ starts'.scan = 1
          /\ initialScan' = "pending"]_vars

\* C18 witness: the load ended on content that is not JSON while a document
\* was indexed, and the scan waits for findFiles
C18_Witness ==
    /\ lastOp.op = "loadFromCache"
    /\ init.data = FileGarbage
    /\ documents # <<>>
    /\ init.pc = "findFiles"

(***************************************************************************)
(* Properties of the provider requests                                     *)
(***************************************************************************)
\* request p leaves the await it stands at
Leaves(p, pc) == requests[p].pc = pc /\ requests'[p].pc # pc

\* request p has ended with an empty result and has made no lookup
EndedEmpty(request) ==
    /\ request.pc = "done"
    /\ request.result = emptyResult(request.kind)
    /\ request.lookups = 0

\* C22: a request whose token is set when ensureInitialized returns ends
\* with an empty result, the index untouched and no lookup made; a request
\* whose token is set when indexDocument returns ends with an empty result
\* and no lookup made; a request throws only when initialScan is rejected,
\* whatever its token.
C22_CancelledRequestEndsEmpty ==
    [][\A p \in Callers :
          /\ (Leaves(p, "ensureInitialized") /\ requests[p].cancelled
                 /\ initialScan = "fulfilled") =>
                 /\ EndedEmpty(requests'[p])
                 /\ ~requests'[p].indexed
                 /\ Index' = Index
          /\ (Leaves(p, "indexDocument") /\ requests[p].cancelled) =>
                 EndedEmpty(requests'[p])
          /\ requests'[p].pc = "threw" => initialScan' = "rejected"]_vars

\* C22 witness: a request passed the first test of its token, indexed its
\* document, and ended empty at the second test without a lookup
C22_Witness ==
    \E p \in Callers :
        /\ requests[p].kind = "semanticTokens"
        /\ requests[p].cancelled
        /\ requests[p].indexed
        /\ EndedEmpty(requests[p])
        /\ initialScan = "fulfilled"

\* the index holds the document of d as buildSymbolTable gives it now
IndexedAsIs(d) ==
    /\ documentsHas(documents, DocKey(d))
    /\ documentsGet(documents, DocKey(d)) = buildSymbolTable(document(d))

\* C24: a request calls indexDocument only once the cache load and the
\* workspace scan are over, and it makes its lookups only after that and
\* after its own indexDocument, on an index that holds its document as it is.
C24_InitThenReindexThenLookup ==
    [][\A p \in Callers :
          /\ (requests'[p].indexed /\ ~requests[p].indexed) =>
                 /\ initialScan = "fulfilled"
                 /\ init.pc = "done"
                 /\ requests[p].lookups = 0
                 /\ documentsHas(documents', DocKey(requests[p].doc))
                 /\ documentsGet(documents', DocKey(requests[p].doc)) =
                        buildSymbolTable(document(requests[p].doc))
          /\ (requests'[p].lookups > 0 /\ requests[p].lookups = 0) =>
                 /\ initialScan = "fulfilled"
                 /\ init.pc = "done"
                 /\ requests[p].indexed
                 /\ IndexedAsIs(requests[p].doc)]_vars

\* C24 witness: a request has found locations, after the scan ended and
\* after it indexed its document
C24_Witness ==
    \E p \in Callers :
        /\ requests[p].pc = "done"
        /\ requests[p].indexed
        /\ requests[p].lookups > 0
        /\ requests[p].result.kind = "locations"
        /\ init.pc = "done"
====
